---- MODULE Spec2Model ----
(***************************************************************************)
(* Swing capture and session statistics of the NeuraSentinel front end.    *)
(*                                                                         *)
(* DevicePage   : BLE connection handling, the sliding capture buffer and  *)
(*                the window sent for classification.                      *)
(* DashboardPage: demo / CSV classification and the session statistics map.*)
(*                                                                         *)
(* App.tsx renders exactly one route, so a behaviour stays on the page     *)
(* chosen by route:                                                        *)
(*   Spec        - either page, every interleaving, a short frame stream   *)
(*   SpecCapture - DevicePage, one connection, a stream longer than the    *)
(*                 400-sample cap                                          *)
(*                                                                         *)
(* Time is counted in reads of performance.now(): the clock is read only   *)
(* when a frame is accepted (DevicePage.tsx:45) and every read returns a   *)
(* value one tick later than the previous read.  A sample's t is kept in   *)
(* ticks; the division by 1000.0 only changes the unit.                    *)
(***************************************************************************)
EXTENDS Integers, Sequences, FiniteSets, TLC

\* ---------------------------------------------------------------- bounds
MaxFrames == 3        \* frames accepted in Spec
LongFrames == 450     \* frames accepted in SpecCapture
MaxAttempts == 2      \* invocations of handleConnect
MaxSwings == 2        \* classifications merged by the backend

\* ------------------------------------------------------ program constants
FrameBytes == 24
MAX_SAMPLES == 400
WINDOW == 100
DEVICE_RATE_HZ == 100
DEFAULT_PLAYER_ID == "practice_player"
DEVICE_SESSION_ID == "device_session"
PRACTICE_SESSION_ID == "practice_session"
DEMO_SAMPLES == 40
DEMO_RATE_HZ == 100
CSV_RATE_HZ == 200
SHOTS == <<"Forehand", "Backhand", "Smash", "Push", "Block", "Flick", "Serve", "Chop">>

NullTime == -1                       \* startTimeRef.current == null
Null == "null"                       \* null for string-valued state
NoSamplesMsg == "No samples captured yet from the device. Move the bat to generate data."
ConnectFailMsg == "Failed to connect to device."
GattFailMsg == "Failed to connect to GATT server"
ClassifyFailMsg == "Failed to classify swing from device data."
DemoFailMsg == "Failed to classify swing. Make sure the backend is running on port 8000."
NoFileMsg == "Please select a CSV file first."
NoRowsMsg == "CSV file has no data rows."
MissingColumnMsg == "CSV header missing required column"
CsvFailMsg == "Failed to classify CSV swing."

\* ----------------------------------------------------------------- inputs
Device == "NeuraBat"
ResultShots == {"Forehand", "Smash"}
FrameLengths == {23, 24, 28}
Payloads == {1}
ErrorMessages == {"", "NetworkError"}     \* err.message of a rejection
Routes == {"/device", "/dashboard"}
\* uploaded files: data rows and whether the header has the six columns
CsvFiles == {[rows |-> 0, header |-> TRUE], [rows |-> 2, header |-> TRUE],
             [rows |-> 2, header |-> FALSE]}

VARIABLES
  \* the route App.tsx renders
  route,
  \* DashboardPage React state (DashboardPage.tsx:23-27)
  loading, dashError, dashResult, selectedFile, shotStatsByType,
  \* DashboardPage handler invocations and the mount-time stats fetch
  dashCalls, mountFetch,
  \* the backend's statistics of the practice session
  serverStats,
  \* DevicePage React state (DevicePage.tsx:16-23)
  supported, connecting, connected, deviceName, error, sending,
  lastSample, lastResult,
  \* DevicePage refs (DevicePage.tsx:25-27)
  samplesRef, startTimeRef, deviceRef,
  \* control state of the async handlers
  connPc, discPc, attempt,
  \* environment: clock, GATT link, live listeners, requests in flight
  now, gattConnected, listeners, requests,
  \* ProfilePage / AnalyticsPage React state (ProfilePage.tsx:23-26,
  \* DevicePage.tsx:238-241) and the history loads in flight
  playerId, history, histLoading, histError, loads, histMounted,
  \* what the page last rendered from its state
  view,
  \* history variables
  lastEvent, acceptedLog, epochLog, attemptLog, discDuring, historyOf

devVars == <<supported, connecting, connected, deviceName, error, sending,
             lastSample, lastResult, samplesRef, startTimeRef, deviceRef,
             connPc, discPc, attempt,
             now, gattConnected, listeners, requests,
             acceptedLog, epochLog, attemptLog, discDuring>>

dashVars == <<loading, dashError, dashResult, selectedFile, shotStatsByType,
              dashCalls, mountFetch, serverStats>>

histVars == <<playerId, history, histLoading, histError, loads, histMounted,
              historyOf>>

vars == <<route, lastEvent, view, devVars, dashVars, histVars>>

\* ---------------------------------------------------------------- helpers
\* Array.prototype.slice(-n) for n > 0
SliceLast(s, n) ==
  IF Len(s) <= n THEN s ELSE SubSeq(s, Len(s) - n + 1, Len(s))

Event(op, len) == [op |-> op, len |-> len]

NewAttempt == [outcome |-> "none", registered |-> FALSE,
               cancelled |-> FALSE, appended |-> FALSE]

\* -------------------------------------------------------------- DevicePage
InitDevice ==
  /\ supported = Null /\ connecting = FALSE /\ connected = FALSE
  /\ deviceName = "" /\ error = Null /\ sending = FALSE
  /\ lastSample = <<>> /\ lastResult = Null
  /\ samplesRef = <<>> /\ startTimeRef = NullTime /\ deviceRef = Null
  /\ connPc = "idle" /\ discPc = "idle" /\ attempt = 0
  /\ now = 0 /\ gattConnected = FALSE /\ listeners = {} /\ requests = <<>>
  /\ acceptedLog = <<>> /\ epochLog = <<>>
  /\ attemptLog = [a \in 1..MaxAttempts |-> NewAttempt]
  /\ discDuring = 0

\* useEffect: feature detection of navigator.bluetooth
MountEffect(hasBluetooth) ==
  /\ supported = Null
  /\ supported' = IF hasBluetooth THEN "true" ELSE "false"
  /\ lastEvent' = Event("mount", 0)
  /\ UNCHANGED <<connecting, connected, deviceName, error, sending,
                 lastSample, lastResult, samplesRef, startTimeRef, deviceRef,
                 connPc, discPc, attempt, now, gattConnected, listeners,
                 requests, acceptedLog, epochLog, attemptLog, discDuring>>

\* a frame is decoded only when it carries the six float32 values
DecodableFiveFloats(value) == value.byteLength >= 20

Decodable(value) == value.byteLength >= FrameBytes

\* retention policy of the capture buffer
TrimToCapOldest(s) ==
  IF Len(s) > MAX_SAMPLES THEN SubSeq(s, 1, MAX_SAMPLES) ELSE s

TrimToCap(s) ==
  IF Len(s) > MAX_SAMPLES THEN SliceLast(s, MAX_SAMPLES) ELSE s

\* addSampleFromNotification(value): the new values of
\* <<samplesRef, startTimeRef, lastSample, now>> and whether a sample was
\* appended
addSampleFromNotification(value) ==
  IF ~Decodable(value)
    THEN [samples |-> samplesRef, start |-> startTimeRef,
          last |-> lastSample, clock |-> now, accepted |-> FALSE]
    ELSE LET read == now + 1
             start == IF startTimeRef = NullTime THEN read ELSE startTimeRef
             base == IF startTimeRef = NullTime THEN <<>> ELSE samplesRef
             sample == [v |-> value.data, t |-> read - start]
         IN [samples |-> TrimToCap(Append(base, sample)), start |-> start,
             last |-> <<sample>>, clock |-> read, accepted |-> TRUE]

\* the window handed to the request is the buffer's own array
WindowIsBufferItself == FALSE

\* samplesRef.current.slice(-100) returns a new array
WindowIsCopy == TRUE

\* what a push into the buffer's array does to a request in flight: nothing
\* to a copy; an aliased window sees the push until the buffer is reassigned
SeenByRequest(req, r) ==
  IF ~req.aliased \/ ~r.accepted THEN req
  ELSE IF startTimeRef = NullTime THEN [req EXCEPT !.aliased = FALSE]
  ELSE [req EXCEPT !.samples = Append(@, r.last[1]),
                   !.aliased = Len(req.samples) + 1 <= MAX_SAMPLES]

\* the 'characteristicvaluechanged' listener registered by attempt a
\* receives one event; limit bounds the frames accepted
Notify(a, value, limit) ==
  /\ a \in listeners /\ gattConnected /\ discPc = "idle"
  /\ (value.present /\ Decodable(value)) => now < limit
  /\ LET r == IF value.present THEN addSampleFromNotification(value)
              ELSE [samples |-> samplesRef, start |-> startTimeRef,
                    last |-> lastSample, clock |-> now, accepted |-> FALSE]
     IN /\ samplesRef' = r.samples
        /\ startTimeRef' = r.start
        /\ lastSample' = r.last
        /\ now' = r.clock
        /\ acceptedLog' = IF r.accepted THEN Append(acceptedLog, r.last[1])
                          ELSE acceptedLog
        /\ epochLog' = IF r.accepted THEN Append(epochLog, r.last[1])
                       ELSE epochLog
        /\ attemptLog' = IF r.accepted
                           THEN [attemptLog EXCEPT ![a].appended = TRUE]
                           ELSE attemptLog
        /\ requests' = [i \in 1..Len(requests) |-> SeenByRequest(requests[i], r)]
  /\ lastEvent' = IF value.present THEN Event("notify", value.byteLength)
                ELSE Event("notifyNoValue", 0)
  /\ UNCHANGED <<supported, connecting, connected, deviceName, error, sending,
                 lastResult, deviceRef, connPc, discPc, attempt,
                 gattConnected, listeners, discDuring>>

\* ------------------------------------------------------------ handleConnect
\* the connect button: disabled={connecting || !supported}
ConnectEnabled == ~connecting /\ supported = "true"

\* limit bounds the invocations
ClickConnect(limit) ==
  /\ ConnectEnabled /\ discPc = "idle" /\ connPc = "idle"
  /\ attempt < limit
  /\ error' = Null /\ connecting' = TRUE /\ lastResult' = Null
  /\ connPc' = "requestDevice"
  /\ attempt' = attempt + 1
  /\ attemptLog' = [attemptLog EXCEPT ![attempt + 1].outcome = "running"]
  /\ lastEvent' = Event("clickConnect", 0)
  /\ UNCHANGED <<supported, connected, deviceName, sending, lastSample,
                 samplesRef, startTimeRef, deviceRef, discPc, now,
                 gattConnected, listeners, requests, acceptedLog, epochLog,
                 discDuring>>

RequestDeviceResolve ==
  /\ connPc = "requestDevice"
  /\ deviceRef' = Device /\ deviceName' = Device
  /\ connPc' = "gattConnect"
  /\ lastEvent' = Event("stepOk", 1)
  /\ UNCHANGED <<supported, connecting, connected, error, sending, lastSample,
                 lastResult, samplesRef, startTimeRef, discPc, attempt, now,
                 gattConnected, listeners, requests, acceptedLog, epochLog,
                 attemptLog, discDuring>>

GattConnectResolve ==
  /\ connPc = "gattConnect"
  /\ gattConnected' = TRUE
  /\ connPc' = "getPrimaryService"
  /\ lastEvent' = Event("stepOk", 2)
  /\ UNCHANGED <<supported, connecting, connected, deviceName, error, sending,
                 lastSample, lastResult, samplesRef, startTimeRef, deviceRef,
                 discPc, attempt, now, listeners, requests, acceptedLog,
                 epochLog, attemptLog, discDuring>>

\* getPrimaryService and getCharacteristic succeed only on a live link
DiscoveryResolve ==
  /\ connPc \in {"getPrimaryService", "getCharacteristic"}
  /\ gattConnected
  /\ connPc' = IF connPc = "getPrimaryService" THEN "getCharacteristic"
               ELSE "startNotifications"
  /\ lastEvent' = Event("stepOk", IF connPc = "getPrimaryService" THEN 3 ELSE 4)
  /\ UNCHANGED <<supported, connecting, connected, deviceName, error, sending,
                 lastSample, lastResult, samplesRef, startTimeRef, deviceRef,
                 discPc, attempt, now, gattConnected, listeners, requests,
                 acceptedLog, epochLog, attemptLog, discDuring>>

\* startNotifications resolved: addEventListener, setConnected(true), finally
StartNotificationsResolve ==
  /\ connPc = "startNotifications"
  /\ gattConnected
  /\ listeners' = listeners \cup {attempt}
  /\ connected' = TRUE
  /\ connecting' = FALSE
  /\ connPc' = "idle"
  /\ epochLog' = <<>>
  /\ attemptLog' = [attemptLog EXCEPT ![attempt].registered = TRUE,
                                      ![attempt].outcome = "connected"]
  /\ lastEvent' = Event("connected", 0)
  /\ UNCHANGED <<supported, deviceName, error, sending, lastSample, lastResult,
                 samplesRef, startTimeRef, deviceRef, discPc, attempt, now,
                 gattConnected, requests, acceptedLog, discDuring>>

\* catch + finally of handleConnect
ConnectCatchKeepsConnected(msg) ==
  /\ error' = IF msg = "" THEN ConnectFailMsg ELSE msg
  /\ deviceRef' = Null
  /\ connecting' = FALSE
  /\ connPc' = "idle"
  /\ UNCHANGED <<connected, listeners>>

ConnectCatch(msg) ==
  /\ error' = IF msg = "" THEN ConnectFailMsg ELSE msg
  /\ connected' = FALSE
  /\ deviceRef' = Null
  /\ connecting' = FALSE
  /\ connPc' = "idle"
  /\ UNCHANGED listeners

\* the awaited step rejects
ConnectStepReject(msg) ==
  /\ connPc # "idle"
  /\ ConnectCatch(msg)
  /\ attemptLog' = [attemptLog EXCEPT ![attempt].outcome = "failed"]
  /\ lastEvent' = Event("stepFail", 0)
  /\ UNCHANGED <<supported, deviceName, sending, lastSample, lastResult,
                 samplesRef, startTimeRef, discPc, attempt, now, gattConnected,
                 requests, acceptedLog, epochLog, discDuring>>

\* device.gatt is undefined: server is undefined and handleConnect throws
GattUnavailable ==
  /\ connPc = "gattConnect"
  /\ ConnectCatch(GattFailMsg)
  /\ attemptLog' = [attemptLog EXCEPT ![attempt].outcome = "failed"]
  /\ lastEvent' = Event("stepFail", 2)
  /\ UNCHANGED <<supported, deviceName, sending, lastSample, lastResult,
                 samplesRef, startTimeRef, discPc, attempt, now, gattConnected,
                 requests, acceptedLog, epochLog, discDuring>>

\* --------------------------------------------------------- handleDisconnect
\* the disconnect button is rendered only while connected
DisconnectEnabled == connected

\* a finally block that forgets to clear the device handle
DisconnectFinallyKeepsDevice ==
  /\ UNCHANGED deviceRef
  /\ connected' = FALSE

\* the finally block of handleDisconnect
DisconnectFinally ==
  /\ deviceRef' = Null
  /\ connected' = FALSE

\* the attempt that was awaiting a setup step when the disconnect was issued
MarkCancelled(a) ==
  IF a = 0 THEN attemptLog
  ELSE [attemptLog EXCEPT ![a].cancelled = TRUE]

RunningAttempt == IF connPc = "idle" THEN 0 ELSE attempt

\* no device handle, or its link is down: nothing is awaited
DisconnectNoLink ==
  /\ DisconnectEnabled /\ discPc = "idle"
  /\ deviceRef = Null \/ ~gattConnected
  /\ DisconnectFinally
  /\ attemptLog' = MarkCancelled(RunningAttempt)
  /\ lastEvent' = Event("disconnect", 0)
  /\ UNCHANGED <<supported, connecting, deviceName, error, sending, lastSample,
                 lastResult, samplesRef, startTimeRef, connPc, discPc, attempt,
                 now, gattConnected, listeners, requests, acceptedLog,
                 epochLog, discDuring>>

\* device.gatt.disconnect() throws: catch, then finally
DisconnectThrows ==
  /\ DisconnectEnabled /\ discPc = "idle"
  /\ deviceRef # Null /\ gattConnected
  /\ DisconnectFinally
  /\ attemptLog' = MarkCancelled(RunningAttempt)
  /\ lastEvent' = Event("disconnect", 1)
  /\ UNCHANGED <<supported, connecting, deviceName, error, sending, lastSample,
                 lastResult, samplesRef, startTimeRef, connPc, discPc, attempt,
                 now, gattConnected, listeners, requests, acceptedLog,
                 epochLog, discDuring>>

\* device.gatt.disconnect() takes the link down; the handler is suspended at
\* the await.  The characteristic objects of the connection die with it.
DisconnectCall ==
  /\ DisconnectEnabled /\ discPc = "idle"
  /\ deviceRef # Null /\ gattConnected
  /\ gattConnected' = FALSE
  /\ listeners' = {}
  /\ discPc' = "awaitDisconnect"
  /\ discDuring' = RunningAttempt
  /\ lastEvent' = Event("disconnectCall", 0)
  /\ UNCHANGED <<supported, connecting, connected, deviceName, error, sending,
                 lastSample, lastResult, samplesRef, startTimeRef, deviceRef,
                 connPc, attempt, now, requests, acceptedLog, epochLog,
                 attemptLog>>

DisconnectResume ==
  /\ discPc = "awaitDisconnect"
  /\ DisconnectFinally
  /\ discPc' = "idle"
  /\ attemptLog' = MarkCancelled(discDuring)
  /\ discDuring' = 0
  /\ lastEvent' = Event("disconnect", 2)
  /\ UNCHANGED <<supported, connecting, deviceName, error, sending, lastSample,
                 lastResult, samplesRef, startTimeRef, connPc, attempt, now,
                 gattConnected, listeners, requests, acceptedLog, epochLog>>

\* the radio link drops on its own
LinkLoss ==
  /\ gattConnected /\ discPc = "idle"
  /\ gattConnected' = FALSE
  /\ listeners' = {}
  /\ lastEvent' = Event("linkLoss", 0)
  /\ UNCHANGED <<supported, connecting, connected, deviceName, error, sending,
                 lastSample, lastResult, samplesRef, startTimeRef, deviceRef,
                 connPc, discPc, attempt, now, requests, acceptedLog, epochLog,
                 attemptLog, discDuring>>

\* ---------------------------------------------------------- handleSendSwing
\* the send button: disabled={sending || !connected}
SendEnabledIgnoresSending == connected

SendEnabled == ~sending /\ connected

\* samplesRef.current.slice(0, 100)
ExtractWindowOldest(buffer) ==
  IF Len(buffer) <= WINDOW THEN buffer ELSE SubSeq(buffer, 1, WINDOW)

\* samplesRef.current.slice(-100)
ExtractWindow(buffer) == SliceLast(buffer, WINDOW)

\* the empty-buffer test that precedes the request
RefusesBelowWindow(buffer) == Len(buffer) < WINDOW

RefusesNever(buffer) == FALSE

Refuses(buffer) == Len(buffer) = 0

ClassifyRequest(samples) ==
  [player_id |-> DEFAULT_PLAYER_ID, session_id |-> DEVICE_SESSION_ID,
   sampling_rate_hz |-> DEVICE_RATE_HZ, samples |-> samples,
   aliased |-> ~WindowIsCopy]

handleSendSwing ==
  /\ SendEnabled /\ discPc = "idle"
  /\ IF Refuses(samplesRef)
       THEN /\ error' = NoSamplesMsg
            /\ lastEvent' = Event("handleSendSwing", Len(samplesRef))
            /\ UNCHANGED <<sending, lastResult, requests>>
       ELSE /\ error' = Null
            /\ sending' = TRUE
            /\ lastResult' = Null
            /\ requests' = Append(requests,
                                  ClassifyRequest(ExtractWindow(samplesRef)))
            /\ lastEvent' = Event("handleSendSwing", Len(samplesRef))
  /\ UNCHANGED <<supported, connecting, connected, deviceName, lastSample,
                 samplesRef, startTimeRef, deviceRef, connPc, discPc, attempt,
                 now, gattConnected, listeners, acceptedLog, epochLog,
                 attemptLog, discDuring>>

RemoveAt(s, i) == [j \in 1..(Len(s) - 1) |-> IF j < i THEN s[j] ELSE s[j + 1]]

\* classifySwing resolves: setLastResult, finally setSending(false)
ClassifyResolve(i, shot) ==
  /\ i \in 1..Len(requests)
  /\ lastResult' = shot
  /\ sending' = FALSE
  /\ requests' = RemoveAt(requests, i)
  /\ lastEvent' = Event("classifyOk", 0)
  /\ UNCHANGED <<supported, connecting, connected, deviceName, error,
                 lastSample, samplesRef, startTimeRef, deviceRef, connPc,
                 discPc, attempt, now, gattConnected, listeners, acceptedLog,
                 epochLog, attemptLog, discDuring>>

\* setSending(false) written at the end of the try block, not in finally
ClassifyRejectKeepsSending(i, msg) ==
  /\ i \in 1..Len(requests)
  /\ error' = IF msg = "" THEN ClassifyFailMsg ELSE msg
  /\ requests' = RemoveAt(requests, i)
  /\ lastEvent' = Event("classifyFail", 0)
  /\ UNCHANGED <<supported, connecting, connected, deviceName, lastSample,
                 lastResult, samplesRef, startTimeRef, deviceRef, connPc,
                 discPc, attempt, now, gattConnected, listeners, acceptedLog,
                 epochLog, attemptLog, discDuring, sending>>

\* classifySwing rejects: catch setError, finally setSending(false)
ClassifyReject(i, msg) ==
  /\ i \in 1..Len(requests)
  /\ error' = IF msg = "" THEN ClassifyFailMsg ELSE msg
  /\ sending' = FALSE
  /\ requests' = RemoveAt(requests, i)
  /\ lastEvent' = Event("classifyFail", 0)
  /\ UNCHANGED <<supported, connecting, connected, deviceName, lastSample,
                 lastResult, samplesRef, startTimeRef, deviceRef, connPc,
                 discPc, attempt, now, gattConnected, listeners, acceptedLog,
                 epochLog, attemptLog, discDuring>>


\* ------------------------------------------------------------ DashboardPage
ShotStat(shot, count) == [shot_type |-> shot, count |-> count]

HasSwings(stats, shot) == shot \in DOMAIN stats /\ stats[shot] > 0

\* the shots list of a fetchSessionStats response
StatsShots(stats) ==
  LET recorded == SelectSeq(SHOTS, LAMBDA shot : HasSwings(stats, shot))
  IN [i \in 1..Len(recorded) |-> ShotStat(recorded[i], stats[recorded[i]])]

\* the backend merges one classification result into the session statistics
Merge(stats, shot) == [stats EXCEPT ![shot] = @ + 1]

\* the map replaced by a map of the one entry instead of being extended
MapPutReplaces(map, key, val) == [k \in {key} |-> val]

MapPut(map, key, val) ==
  [k \in (DOMAIN map) \cup {key} |-> IF k = key THEN val ELSE map[k]]

RECURSIVE MapFromShots(_, _)
\* for (const shot of stats.shots) map[shot.shot_type] = shot
MapFromShots(shots, map) ==
  IF shots = <<>> THEN map
  ELSE MapFromShots(Tail(shots), MapPut(map, Head(shots).shot_type, Head(shots)))

EmptyMap == <<>>
NoFetch == [pc |-> "none", shots |-> <<>>]

Call(kind, pc, file, rate, n) ==
  [kind |-> kind, pc |-> pc, file |-> file, sampling_rate_hz |-> rate,
   samples |-> n, shots |-> <<>>]

InitDashboard ==
  /\ loading = FALSE /\ dashError = Null /\ dashResult = Null
  /\ selectedFile = <<>> /\ shotStatsByType = EmptyMap
  /\ dashCalls = <<>> /\ mountFetch = NoFetch

\* useEffect: void refreshSessionStats()
DashMountEffect ==
  /\ mountFetch.pc = "none"
  /\ mountFetch' = [mountFetch EXCEPT !.pc = "refresh"]
  /\ lastEvent' = Event("dashMount", 0)
  /\ UNCHANGED <<loading, dashError, dashResult, selectedFile,
                 shotStatsByType, dashCalls, serverStats>>

\* the backend answers the mount-time fetchSessionStats
MountStatsServed ==
  /\ mountFetch.pc = "refresh"
  /\ mountFetch' = [pc |-> "served", shots |-> StatsShots(serverStats)]
  /\ lastEvent' = Event("statsServed", 0)
  /\ UNCHANGED <<loading, dashError, dashResult, selectedFile,
                 shotStatsByType, dashCalls, serverStats>>

MountStatsResolve ==
  /\ mountFetch.pc = "served"
  /\ shotStatsByType' = MapFromShots(mountFetch.shots, EmptyMap)
  /\ mountFetch' = [pc |-> "done", shots |-> <<>>]
  /\ lastEvent' = Event("statsOk", 0)
  /\ UNCHANGED <<loading, dashError, dashResult, selectedFile, dashCalls,
                 serverStats>>

MountStatsReject ==
  /\ mountFetch.pc \in {"refresh", "served"}
  /\ mountFetch' = [pc |-> "done", shots |-> <<>>]
  /\ lastEvent' = Event("statsFail", 0)
  /\ UNCHANGED <<loading, dashError, dashResult, selectedFile,
                 shotStatsByType, dashCalls, serverStats>>

\* both classify buttons: disabled={loading}
ClassifyEnabled == ~loading

handleTestSwing ==
  /\ ClassifyEnabled
  /\ loading' = TRUE
  /\ dashError' = Null
  /\ dashCalls' = Append(dashCalls,
                         Call("test", "classify", <<>>, DEMO_RATE_HZ, DEMO_SAMPLES))
  /\ lastEvent' = Event("handleTestSwing", 0)
  /\ UNCHANGED <<dashResult, selectedFile, shotStatsByType, mountFetch,
                 serverStats>>

handleFileChange(file) ==
  /\ selectedFile' = file
  /\ lastEvent' = Event("handleFileChange", Len(file))
  /\ UNCHANGED <<loading, dashError, dashResult, shotStatsByType, dashCalls,
                 mountFetch, serverStats>>

handleClassifyCsv ==
  /\ ClassifyEnabled
  /\ IF selectedFile = <<>>
       THEN /\ dashError' = NoFileMsg
            /\ UNCHANGED <<loading, dashCalls>>
       ELSE /\ loading' = TRUE
            /\ dashError' = Null
            /\ dashCalls' = Append(dashCalls,
                                   Call("csv", "text", selectedFile, CSV_RATE_HZ, 0))
  /\ lastEvent' = Event("handleClassifyCsv", Len(selectedFile))
  /\ UNCHANGED <<dashResult, selectedFile, shotStatsByType, mountFetch,
                 serverStats>>

\* catch + finally of handleTestSwing and handleClassifyCsv
DashCatchResetsStats(kind, msg) ==
  /\ dashError' = IF kind = "test" THEN DemoFailMsg
                  ELSE IF msg = "" THEN CsvFailMsg ELSE msg
  /\ loading' = FALSE
  /\ shotStatsByType' = EmptyMap

DashCatch(kind, msg) ==
  /\ dashError' = IF kind = "test" THEN DemoFailMsg
                  ELSE IF msg = "" THEN CsvFailMsg ELSE msg
  /\ loading' = FALSE
  /\ UNCHANGED shotStatsByType

\* selectedFile.text() resolves and the lines are parsed
CsvTextResolve(i) ==
  /\ i \in 1..Len(dashCalls)
  /\ dashCalls[i].pc = "text"
  /\ LET file == dashCalls[i].file[1]
     IN IF file.rows + 1 < 2
          THEN /\ DashCatch("csv", NoRowsMsg)
               /\ dashCalls' = RemoveAt(dashCalls, i)
               /\ lastEvent' = Event("csvInvalid", 0)
          ELSE IF ~file.header
          THEN /\ DashCatch("csv", MissingColumnMsg)
               /\ dashCalls' = RemoveAt(dashCalls, i)
               /\ lastEvent' = Event("csvInvalid", 1)
          ELSE /\ dashCalls' = [dashCalls EXCEPT ![i].pc = "classify",
                                                 ![i].samples = file.rows]
               /\ lastEvent' = Event("csvParsed", file.rows)
               /\ UNCHANGED <<dashError, loading, shotStatsByType>>
  /\ UNCHANGED <<dashResult, selectedFile, mountFetch, serverStats>>

CsvTextReject(i, msg) ==
  /\ i \in 1..Len(dashCalls)
  /\ dashCalls[i].pc = "text"
  /\ DashCatch("csv", msg)
  /\ dashCalls' = RemoveAt(dashCalls, i)
  /\ lastEvent' = Event("csvInvalid", 2)
  /\ UNCHANGED <<dashResult, selectedFile, mountFetch, serverStats>>

\* classifySwing resolves: the backend has merged the result;
\* setLastResult, then await refreshSessionStats()
DashClassifyResolve(i, shot) ==
  /\ i \in 1..Len(dashCalls)
  /\ dashCalls[i].pc = "classify"
  /\ serverStats[shot] < MaxSwings
  /\ serverStats' = Merge(serverStats, shot)
  /\ dashResult' = shot
  /\ dashCalls' = [dashCalls EXCEPT ![i].pc = "refresh"]
  /\ lastEvent' = Event("dashClassifyOk", 0)
  /\ UNCHANGED <<loading, dashError, selectedFile, shotStatsByType,
                 mountFetch>>

DashClassifyReject(i, msg) ==
  /\ i \in 1..Len(dashCalls)
  /\ dashCalls[i].pc = "classify"
  /\ DashCatch(dashCalls[i].kind, msg)
  /\ dashCalls' = RemoveAt(dashCalls, i)
  /\ lastEvent' = Event("dashClassifyFail", 0)
  /\ UNCHANGED <<dashResult, selectedFile, mountFetch, serverStats>>

\* the backend answers the handler's fetchSessionStats
StatsServed(i) ==
  /\ i \in 1..Len(dashCalls)
  /\ dashCalls[i].pc = "refresh"
  /\ dashCalls' = [dashCalls EXCEPT ![i].pc = "served",
                                    ![i].shots = StatsShots(serverStats)]
  /\ lastEvent' = Event("statsServed", i)
  /\ UNCHANGED <<loading, dashError, dashResult, selectedFile,
                 shotStatsByType, mountFetch, serverStats>>

\* refreshSessionStats returns: setShotStatsByType, finally setLoading(false)
StatsResolve(i) ==
  /\ i \in 1..Len(dashCalls)
  /\ dashCalls[i].pc = "served"
  /\ shotStatsByType' = MapFromShots(dashCalls[i].shots, EmptyMap)
  /\ loading' = FALSE
  /\ dashCalls' = RemoveAt(dashCalls, i)
  /\ lastEvent' = Event("statsOk", i)
  /\ UNCHANGED <<dashError, dashResult, selectedFile, mountFetch, serverStats>>

\* fetchSessionStats rejects: logged inside refreshSessionStats
StatsReject(i) ==
  /\ i \in 1..Len(dashCalls)
  /\ dashCalls[i].pc \in {"refresh", "served"}
  /\ loading' = FALSE
  /\ dashCalls' = RemoveAt(dashCalls, i)
  /\ lastEvent' = Event("statsFail", i)
  /\ UNCHANGED <<dashError, dashResult, selectedFile, shotStatsByType,
                 mountFetch, serverStats>>

(***************************************************************************)
(* ProfilePage and AnalyticsPage: the numbers.  JavaScript numbers are     *)
(* modelled as exact fractions num/den in lowest terms with den > 0, so    *)
(* 0.85 is 17/20 and equal values are equal records.                       *)
(***************************************************************************)
Rat(n, d) == [num |-> n, den |-> d]

Abs(x) == IF x < 0 THEN -x ELSE x

RECURSIVE GCD(_, _)
GCD(a, b) == IF b = 0 THEN a ELSE GCD(b, a % b)

\* n / d
Div(n, d) == LET g == GCD(Abs(n), d) IN Rat(n \div g, d \div g)

Zero == Rat(0, 1)

\* a decimal literal with two places, 0.85 == Hundredths(85)
Hundredths(k) == Div(k, 100)

RatAdd(a, b) == Div(a.num * b.den + b.num * a.den, a.den * b.den)

RatSub(a, b) == Div(a.num * b.den - b.num * a.den, a.den * b.den)

\* a * k for an integer k
RatTimes(a, k) == LET g == GCD(Abs(k), a.den) IN Div(a.num * (k \div g), a.den \div g)

\* a / k for a positive integer k
RatOver(a, k) == LET g == GCD(Abs(a.num), k) IN Div(a.num \div g, a.den * (k \div g))

RatNeg(a) == Rat(-a.num, a.den)

RatAbs(a) == Rat(Abs(a.num), a.den)

RECURSIVE RatLess(_, _)
\* a < b, compared by integer parts and then by the fractional parts, so
\* that no product leaves the integer range
RatLess(a, b) ==
  LET qa == a.num \div a.den
      qb == b.num \div b.den
      ra == a.num % a.den
      rb == b.num % b.den
  IN IF qa # qb THEN qa < qb
     ELSE IF rb = 0 THEN FALSE
     ELSE IF ra = 0 THEN TRUE
     ELSE RatLess(Rat(b.den, rb), Rat(a.den, ra))

RatLeq(a, b) == ~RatLess(b, a)

\* x.toFixed(1): the decimal with one place nearest to |x|, the larger one
\* on a tie, behind a minus sign when x < 0
toFixed1(x) ==
  LET whole == Abs(x.num) \div x.den
      rem == Abs(x.num) % x.den
      tenths == 10 * whole + (20 * rem + x.den) \div (2 * x.den)
  IN [neg |-> x.num < 0, int |-> tenths \div 10, tenth |-> tenths % 10]

\* the decimal string d.t
Decimal(d, t) == [neg |-> FALSE, int |-> d, tenth |-> t]

(***************************************************************************)
(* Histories the backend can return.                                       *)
(***************************************************************************)
MaxSessions == 2

\* a ShotStats record of services/api
Stat(shot, count, conf, speed) ==
  [shot_type |-> shot, count |-> count,
   average_confidence |-> Hundredths(conf),
   average_speed_mps |-> Hundredths(speed)]

ForehandStats ==
  {Stat("Forehand", 0, 50, 900), Stat("Forehand", 150, 90, 1000),
   Stat("Forehand", 399, 80, 1000), Stat("Forehand", 400, 80, 1200),
   Stat("Forehand", 200, 65, 1000), Stat("Forehand", 10, 85, 1000),
   Stat("Forehand", 10, 80, 1000), Stat("Forehand", 10, 78, 950),
   Stat("Forehand", 10, 92, 1100), Stat("Forehand", 10, 75, 1000)}

SmashStats ==
  {Stat("Smash", 0, 40, 1500), Stat("Smash", 150, 90, 1400),
   Stat("Smash", 10, 78, 1600)}

ShotLists ==
  {<<>>} \cup {<<f>> : f \in ForehandStats} \cup {<<m>> : m \in SmashStats}
    \cup {<<f, m>> : f \in ForehandStats, m \in SmashStats}

SessionChoices == {[shots |-> l] : l \in ShotLists}

RECURSIVE SeqsUpTo(_, _)
SeqsUpTo(S, n) ==
  IF n = 0 THEN {<<>>}
  ELSE LET shorter == SeqsUpTo(S, n - 1)
       IN shorter \cup {Append(q, x) : q \in {r \in shorter : Len(r) = n - 1}, x \in S}

Histories == {[sessions |-> q] : q \in SeqsUpTo(SessionChoices, MaxSessions)}

NoView == [page |-> "none"]

\* useState('practice_player'), useState(null), useState(false), useState(null)
InitHistoryPage ==
  /\ playerId = DEFAULT_PLAYER_ID
  /\ history = <<>>
  /\ histLoading = FALSE
  /\ histError = Null
  /\ loads = <<>>
  /\ histMounted = FALSE
  /\ historyOf = Null


(***************************************************************************)
(* ProfilePage and AnalyticsPage: values derived from the history at each  *)
(* render.                                                                 *)
(***************************************************************************)
\* history?.sessions ?? []
sessions == IF history = <<>> THEN <<>> ELSE history[1].sessions

\* latest = sessions[sessions.length - 1] is defined
HasLatest == Len(sessions) > 0

\* previous = sessions.length > 1 ? sessions[sessions.length - 2] : undefined
HasPrevious == Len(sessions) > 1

latest == sessions[Len(sessions)]

previous == sessions[Len(sessions) - 1]

RECURSIVE TotalCount(_)
\* totalCount += s.count over the list
TotalCount(shots) ==
  IF shots = <<>> THEN 0 ELSE Head(shots).count + TotalCount(Tail(shots))

RECURSIVE WeightedSum(_, _)
\* sum += s[field] * s.count over the list
WeightedSum(shots, field) ==
  IF shots = <<>> THEN Zero
  ELSE RatAdd(RatTimes(Head(shots)[field], Head(shots).count),
              WeightedSum(Tail(shots), field))

RECURSIVE PlainSum(_, _)
PlainSum(shots, field) ==
  IF shots = <<>> THEN Zero
  ELSE RatAdd(Head(shots)[field], PlainSum(Tail(shots), field))

NoSummary == [avgAccuracy |-> Zero, avgSpeed |-> Zero]

\* the averages of the per-shot averages, every shot type weighing the same
summarizeShotsUnweighted(shots) ==
  IF Len(shots) = 0 THEN NoSummary
  ELSE [avgAccuracy |-> RatOver(PlainSum(shots, "average_confidence"), Len(shots)),
        avgSpeed |-> RatOver(PlainSum(shots, "average_speed_mps"), Len(shots))]

summarizeShots(shots) ==
  IF Len(shots) = 0 THEN NoSummary
  ELSE LET totalCount == TotalCount(shots)
           sumAccuracy == WeightedSum(shots, "average_confidence")
           sumSpeed == WeightedSum(shots, "average_speed_mps")
       IN [avgAccuracy |-> IF totalCount # 0 THEN RatOver(sumAccuracy, totalCount)
                           ELSE Zero,
           avgSpeed |-> IF totalCount # 0 THEN RatOver(sumSpeed, totalCount)
                        ELSE Zero]

\* AnalyticsPage's own copy of the function
AnalyticsSummarizeShots(shots) ==
  IF Len(shots) = 0 THEN NoSummary
  ELSE LET totalCount == TotalCount(shots)
           sumAccuracy == WeightedSum(shots, "average_confidence")
           sumSpeed == WeightedSum(shots, "average_speed_mps")
       IN [avgAccuracy |-> IF totalCount # 0 THEN RatOver(sumAccuracy, totalCount)
                           ELSE Zero,
           avgSpeed |-> IF totalCount # 0 THEN RatOver(sumSpeed, totalCount)
                        ELSE Zero]

latestSummary == IF HasLatest THEN summarizeShots(latest.shots) ELSE NoSummary

prevSummary == IF HasPrevious THEN summarizeShots(previous.shots) ELSE NoSummary

\* the change taken relative to the previous session's accuracy
accuracyDeltaRelative ==
  LET diff == RatSub(latestSummary.avgAccuracy, prevSummary.avgAccuracy)
      prev == prevSummary.avgAccuracy
  IN IF prev.num = 0 THEN diff
     ELSE Div(diff.num * prev.den, diff.den * prev.num)

accuracyDelta == RatSub(latestSummary.avgAccuracy, prevSummary.avgAccuracy)

speedDelta == RatSub(latestSummary.avgSpeed, prevSummary.avgSpeed)

AnalyticsLatestSummary ==
  IF HasLatest THEN AnalyticsSummarizeShots(latest.shots) ELSE NoSummary

AnalyticsPrevSummary ==
  IF HasPrevious THEN AnalyticsSummarizeShots(previous.shots) ELSE NoSummary

AnalyticsAccuracyDelta ==
  RatSub(AnalyticsLatestSummary.avgAccuracy, AnalyticsPrevSummary.avgAccuracy)

AnalyticsSpeedDelta ==
  RatSub(AnalyticsLatestSummary.avgSpeed, AnalyticsPrevSummary.avgSpeed)

RECURSIVE Flatten(_)
\* for (const session of sessions) for (const shot of session.shots)
Flatten(ss) == IF ss = <<>> THEN <<>> ELSE Head(ss).shots \o Flatten(Tail(ss))

overallCount == TotalCount(Flatten(sessions))

overallAccSum == WeightedSum(Flatten(sessions), "average_confidence")

overallAccuracy ==
  IF overallCount # 0 THEN RatOver(overallAccSum, overallCount) ELSE Zero

\* the comparisons written with > instead of >=
LevelStrict(count, accuracy) ==
  IF count > 400 /\ RatLess(Hundredths(80), accuracy) THEN "Pro"
  ELSE IF count > 200 /\ RatLess(Hundredths(65), accuracy) THEN "Veteran"
  ELSE "Amateur"

Level(count, accuracy) ==
  IF count >= 400 /\ RatLeq(Hundredths(80), accuracy) THEN "Pro"
  ELSE IF count >= 200 /\ RatLeq(Hundredths(65), accuracy) THEN "Veteran"
  ELSE "Amateur"

level == Level(overallCount, overallAccuracy)

\* the dashboard's list Object.values(shotStatsByType); the totals below do
\* not depend on its order
shotStatsList ==
  LET present == SelectSeq(SHOTS, LAMBDA shot : shot \in DOMAIN shotStatsByType)
  IN [i \in 1..Len(present) |-> shotStatsByType[present[i]]]

totalSwings == TotalCount(shotStatsList)

accWeightedSum == WeightedSum(shotStatsList, "average_confidence")

DashboardOverallAccuracy ==
  IF totalSwings # 0 THEN RatOver(accWeightedSum, totalSwings) ELSE Zero


(***************************************************************************)
(* Trend labels and feedback.  A rendered string is modelled by its fixed  *)
(* text, the decimal printed in it (if any) and the name inserted.         *)
(***************************************************************************)
Label(form, value, unit) == [form |-> form, value |-> value, unit |-> unit]

\* the decrease branch printing pct instead of -pct
renderDeltaLabelSigned(delta, unit) ==
  IF ~HasPrevious THEN Label("no previous data", <<>>, "")
  ELSE LET pct == RatTimes(delta, 100)
       IN IF RatLess(RatAbs(pct), Div(1, 1000)) THEN Label("no change in", <<>>, unit)
          ELSE IF RatLess(Zero, delta) THEN Label("% increase in", <<toFixed1(pct)>>, unit)
          ELSE Label("% decrease in", <<toFixed1(pct)>>, unit)

renderDeltaLabel(delta, unit) ==
  IF ~HasPrevious THEN Label("no previous data", <<>>, "")
  ELSE LET pct == RatTimes(delta, 100)
       IN IF RatLess(RatAbs(pct), Div(1, 1000)) THEN Label("no change in", <<>>, unit)
          ELSE IF RatLess(Zero, delta) THEN Label("% increase in", <<toFixed1(pct)>>, unit)
          ELSE Label("% decrease in", <<toFixed1(RatNeg(pct))>>, unit)

\* AnalyticsPage's own copy of the function
AnalyticsRenderDeltaLabel(delta, unit) ==
  IF ~HasPrevious THEN Label("no previous data", <<>>, "")
  ELSE LET pct == RatTimes(delta, 100)
       IN IF RatLess(RatAbs(pct), Div(1, 1000)) THEN Label("no change in", <<>>, unit)
          ELSE IF RatLess(Zero, delta) THEN Label("% increase in", <<toFixed1(pct)>>, unit)
          ELSE Label("% decrease in", <<toFixed1(RatNeg(pct))>>, unit)

Feedback(msg, shot, value) == [msg |-> msg, shot |-> shot, value |-> value]

\* [...shots].sort((a, b) => b.count - a.count)[0]: the sort is stable, so
\* the first of the shots with the largest count
PrimaryShot(shots) ==
  shots[CHOOSE i \in 1..Len(shots) :
          \A j \in 1..Len(shots) :
            /\ shots[j].count <= shots[i].count
            /\ j < i => shots[j].count < shots[i].count]

\* the improvement test written with >= instead of >
renderAIFeedbackInclusive ==
  IF ~HasLatest \/ Len(latest.shots) = 0 THEN Feedback("No swings recorded yet", "", <<>>)
  ELSE LET primaryShot == PrimaryShot(latest.shots)
           accPct == RatTimes(latestSummary.avgAccuracy, 100)
       IN IF ~HasPrevious
          THEN IF RatLeq(Rat(90, 1), accPct)
               THEN Feedback("Amazing start", primaryShot.shot_type, <<toFixed1(accPct)>>)
               ELSE IF RatLeq(Rat(75, 1), accPct)
               THEN Feedback("Great foundation", primaryShot.shot_type, <<>>)
               ELSE Feedback("You are at the beginning", primaryShot.shot_type, <<>>)
          ELSE IF RatLeq(Hundredths(2), accuracyDelta)
          THEN Feedback("Nice improvement", "", <<toFixed1(RatTimes(accuracyDelta, 100))>>)
          ELSE IF RatLess(accuracyDelta, RatNeg(Hundredths(2)))
          THEN Feedback("Today was a slightly tougher session", primaryShot.shot_type,
                        <<toFixed1(RatTimes(RatNeg(accuracyDelta), 100))>>)
          ELSE Feedback("Your accuracy is stable", primaryShot.shot_type, <<>>)

\* the feedback paragraph of ProfilePage
renderAIFeedback ==
  IF ~HasLatest \/ Len(latest.shots) = 0 THEN Feedback("No swings recorded yet", "", <<>>)
  ELSE LET primaryShot == PrimaryShot(latest.shots)
           accPct == RatTimes(latestSummary.avgAccuracy, 100)
       IN IF ~HasPrevious
          THEN IF RatLeq(Rat(90, 1), accPct)
               THEN Feedback("Amazing start", primaryShot.shot_type, <<toFixed1(accPct)>>)
               ELSE IF RatLeq(Rat(75, 1), accPct)
               THEN Feedback("Great foundation", primaryShot.shot_type, <<>>)
               ELSE Feedback("You are at the beginning", primaryShot.shot_type, <<>>)
          ELSE IF RatLess(Hundredths(2), accuracyDelta)
          THEN Feedback("Nice improvement", "", <<toFixed1(RatTimes(accuracyDelta, 100))>>)
          ELSE IF RatLess(accuracyDelta, RatNeg(Hundredths(2)))
          THEN Feedback("Today was a slightly tougher session", primaryShot.shot_type,
                        <<toFixed1(RatTimes(RatNeg(accuracyDelta), 100))>>)
          ELSE Feedback("Your accuracy is stable", primaryShot.shot_type, <<>>)

\* a sort that puts the last of the shots with the largest count first
AnalyticsPrimaryShotLastWins(shots) ==
  shots[CHOOSE i \in 1..Len(shots) :
          \A j \in 1..Len(shots) :
            /\ shots[j].count <= shots[i].count
            /\ j > i => shots[j].count < shots[i].count]

\* AnalyticsPage's own [...shots].sort((a, b) => b.count - a.count)[0]
AnalyticsPrimaryShot(shots) ==
  shots[CHOOSE i \in 1..Len(shots) :
          \A j \in 1..Len(shots) :
            /\ shots[j].count <= shots[i].count
            /\ j < i => shots[j].count < shots[i].count]

\* AnalyticsPage's own copy of the function
AnalyticsRenderAIFeedback ==
  IF ~HasLatest \/ Len(latest.shots) = 0 THEN Feedback("No swings recorded yet", "", <<>>)
  ELSE LET primaryShot == AnalyticsPrimaryShot(latest.shots)
           accPct == RatTimes(AnalyticsLatestSummary.avgAccuracy, 100)
       IN IF ~HasPrevious
          THEN IF RatLeq(Rat(90, 1), accPct)
               THEN Feedback("Amazing start", primaryShot.shot_type, <<toFixed1(accPct)>>)
               ELSE IF RatLeq(Rat(75, 1), accPct)
               THEN Feedback("Great foundation", primaryShot.shot_type, <<>>)
               ELSE Feedback("You are at the beginning", primaryShot.shot_type, <<>>)
          ELSE IF RatLess(Hundredths(2), AnalyticsAccuracyDelta)
          THEN Feedback("Nice improvement", "", <<toFixed1(RatTimes(AnalyticsAccuracyDelta, 100))>>)
          ELSE IF RatLess(AnalyticsAccuracyDelta, RatNeg(Hundredths(2)))
          THEN Feedback("Today was a slightly tougher session", primaryShot.shot_type,
                        <<toFixed1(RatTimes(RatNeg(AnalyticsAccuracyDelta), 100))>>)
          ELSE Feedback("Your accuracy is stable", primaryShot.shot_type, <<>>)

(***************************************************************************)
(* What each page renders from its state.                                  *)
(***************************************************************************)
ProfileView ==
  [page |-> "/profile",
   latestSummary |-> latestSummary, prevSummary |-> prevSummary,
   overallCount |-> overallCount, overallAccuracy |-> overallAccuracy,
   level |-> level,
   feedback |-> renderAIFeedback,
   accuracyTrend |-> renderDeltaLabel(accuracyDelta, "accuracy"),
   speedTrend |-> renderDeltaLabel(speedDelta, "speed")]

AnalyticsView ==
  [page |-> "/analytics",
   latestSummary |-> AnalyticsLatestSummary, prevSummary |-> AnalyticsPrevSummary,
   overallCount |-> overallCount, overallAccuracy |-> overallAccuracy,
   feedback |-> AnalyticsRenderAIFeedback,
   accuracyTrend |-> AnalyticsRenderDeltaLabel(AnalyticsAccuracyDelta, "accuracy"),
   speedTrend |-> AnalyticsRenderDeltaLabel(AnalyticsSpeedDelta, "speed")]

DashboardView ==
  [page |-> "/dashboard",
   totalSwings |-> totalSwings, overallAccuracy |-> DashboardOverallAccuracy]

RenderProfile ==
  /\ route = "/profile"
  /\ view' = ProfileView
  /\ lastEvent' = Event("render", Len(sessions))
  /\ UNCHANGED <<route, devVars, dashVars, histVars>>

RenderAnalytics ==
  /\ route = "/analytics"
  /\ view' = AnalyticsView
  /\ lastEvent' = Event("render", Len(sessions))
  /\ UNCHANGED <<route, devVars, dashVars, histVars>>

RenderDashboard ==
  /\ route = "/dashboard"
  /\ view' = DashboardView
  /\ lastEvent' = Event("render", Len(shotStatsList))
  /\ UNCHANGED <<route, devVars, dashVars, histVars>>


(***************************************************************************)
(* ProfilePage and AnalyticsPage: loading the history.                     *)
(***************************************************************************)
MaxLoads == 2

PlayerIds == {DEFAULT_PLAYER_ID, "alice"}

\* the playerName kept in localStorage, if any
StoredNames == {<<>>} \cup {<<name>> : name \in PlayerIds}

\* what fetchPlayerHistory can resolve to
LoadResponses ==
  {[sessions |-> <<>>],
   [sessions |-> <<[shots |-> <<Stat("Forehand", 10, 85, 1000)>>]>>]}

ProfileFailMsg == "Failed to load player history."

AnalyticsFailMsg == "Failed to load analytics."

HistoryRoutes == {"/profile", "/analytics"}

\* the first effects after mount: load() for the initial player id; on the
\* profile the stored player name is then applied, and the effect of the
\* re-render starts a second load while the first is still in flight
HistoryMountEffects(stored) ==
  /\ ~histMounted
  /\ route = "/analytics" => stored = <<>>
  /\ histMounted' = TRUE
  /\ histLoading' = TRUE
  /\ histError' = Null
  /\ IF stored # <<>> /\ stored[1] # playerId
       THEN /\ playerId' = stored[1]
            /\ loads' = <<playerId, stored[1]>>
       ELSE /\ playerId' = playerId
            /\ loads' = <<playerId>>
  /\ lastEvent' = Event("historyMount", Len(stored))
  /\ UNCHANGED <<history, historyOf>>

\* onChange of the player name input: setPlayerId, and the effect of the
\* re-render calls load() for the new id
SetPlayerId(name) ==
  /\ histMounted
  /\ name # playerId
  /\ Len(loads) < MaxLoads
  /\ playerId' = name
  /\ histLoading' = TRUE
  /\ histError' = Null
  /\ loads' = Append(loads, name)
  /\ lastEvent' = Event("setPlayerId", Len(loads))
  /\ UNCHANGED <<history, historyOf, histMounted>>

\* fetchPlayerHistory of load i resolves: setHistory(data), finally
\* setLoading(false)
HistoryResolve(i, data) ==
  /\ i \in 1..Len(loads)
  /\ history' = <<data>>
  /\ historyOf' = loads[i]
  /\ histLoading' = FALSE
  /\ loads' = RemoveAt(loads, i)
  /\ lastEvent' = Event("historyOk", i)
  /\ UNCHANGED <<playerId, histError, histMounted>>

\* fetchPlayerHistory of load i rejects: setError, finally setLoading(false)
HistoryReject(i) ==
  /\ i \in 1..Len(loads)
  /\ histError' = IF route = "/profile" THEN ProfileFailMsg ELSE AnalyticsFailMsg
  /\ histLoading' = FALSE
  /\ loads' = RemoveAt(loads, i)
  /\ lastEvent' = Event("historyFail", i)
  /\ UNCHANGED <<playerId, history, historyOf, histMounted>>

HistoryPageStep(A) ==
  route \in HistoryRoutes /\ A /\ UNCHANGED <<route, view, devVars, dashVars>>


\* ----------------------------------------------------------- specifications
\* event.target.files?.[0] ?? null
FileChoices == {<<>>} \cup {<<file>> : file \in CsvFiles}

Frame(len, data) == [present |-> TRUE, byteLength |-> len, data |-> data]
NoValue == [present |-> FALSE, byteLength |-> 0, data |-> 0]
Frames == {Frame(len, d) : len \in FrameLengths, d \in Payloads} \cup {NoValue}

DevicePageStep(A) ==
  route = "/device" /\ A /\ UNCHANGED <<route, view, dashVars, histVars>>

DashboardPageStep(A) ==
  route = "/dashboard" /\ A /\ UNCHANGED <<route, view, devVars, histVars>>

Init ==
  /\ route \in Routes
  /\ lastEvent = Event("init", 0)
  /\ InitDevice
  /\ InitDashboard
  /\ InitHistoryPage
  /\ view = NoView
  /\ serverStats \in IF route = "/dashboard" THEN [ResultShots -> 0..1]
                    ELSE {[shot \in ResultShots |-> 0]}

Next ==
  \/ \E b \in BOOLEAN : DevicePageStep(MountEffect(b))
  \/ DevicePageStep(ClickConnect(MaxAttempts))
  \/ DevicePageStep(RequestDeviceResolve)
  \/ DevicePageStep(GattConnectResolve)
  \/ DevicePageStep(GattUnavailable)
  \/ DevicePageStep(DiscoveryResolve)
  \/ DevicePageStep(StartNotificationsResolve)
  \/ \E msg \in ErrorMessages : DevicePageStep(ConnectStepReject(msg))
  \/ DevicePageStep(DisconnectNoLink)
  \/ DevicePageStep(DisconnectThrows)
  \/ DevicePageStep(DisconnectCall)
  \/ DevicePageStep(DisconnectResume)
  \/ DevicePageStep(LinkLoss)
  \/ \E a \in 1..MaxAttempts, value \in Frames : DevicePageStep(Notify(a, value, MaxFrames))
  \/ DevicePageStep(handleSendSwing)
  \/ \E i \in 1..Len(requests), shot \in ResultShots : DevicePageStep(ClassifyResolve(i, shot))
  \/ \E i \in 1..Len(requests), msg \in ErrorMessages : DevicePageStep(ClassifyReject(i, msg))
  \/ DashboardPageStep(DashMountEffect)
  \/ DashboardPageStep(MountStatsServed)
  \/ DashboardPageStep(MountStatsResolve)
  \/ DashboardPageStep(MountStatsReject)
  \/ DashboardPageStep(handleTestSwing)
  \/ \E file \in FileChoices : DashboardPageStep(handleFileChange(file))
  \/ DashboardPageStep(handleClassifyCsv)
  \/ \E i \in 1..Len(dashCalls) : DashboardPageStep(CsvTextResolve(i))
  \/ \E i \in 1..Len(dashCalls), msg \in ErrorMessages : DashboardPageStep(CsvTextReject(i, msg))
  \/ \E i \in 1..Len(dashCalls), shot \in ResultShots : DashboardPageStep(DashClassifyResolve(i, shot))
  \/ \E i \in 1..Len(dashCalls), msg \in ErrorMessages : DashboardPageStep(DashClassifyReject(i, msg))
  \/ \E i \in 1..Len(dashCalls) : DashboardPageStep(StatsServed(i))
  \/ \E i \in 1..Len(dashCalls) : DashboardPageStep(StatsResolve(i))
  \/ \E i \in 1..Len(dashCalls) : DashboardPageStep(StatsReject(i))

Spec == Init /\ [][Next]_vars

\* one connection that stays up, and a frame stream longer than the cap
NextCapture ==
  \/ DevicePageStep(MountEffect(TRUE))
  \/ DevicePageStep(ClickConnect(1))
  \/ DevicePageStep(RequestDeviceResolve)
  \/ DevicePageStep(GattConnectResolve)
  \/ DevicePageStep(DiscoveryResolve)
  \/ DevicePageStep(StartNotificationsResolve)
  \/ \E len \in {23, 24} : DevicePageStep(Notify(1, Frame(len, 1), LongFrames))
  \/ DevicePageStep(handleSendSwing)
  \/ DevicePageStep(ClassifyResolve(1, "Smash"))
  \/ DevicePageStep(ClassifyReject(1, ""))

InitCapture == Init /\ route = "/device"

SpecCapture == InitCapture /\ [][NextCapture]_vars

\* ------------------------------------------------------------------ claims
PageRoutes == {"/profile", "/analytics", "/dashboard"}

\* the statistics maps the dashboard can hold
StatsMaps == {MapFromShots(l, EmptyMap) : l \in ShotLists}

\* a page that has loaded its data and has no request outstanding
InitRendering ==
  /\ route \in PageRoutes
  /\ lastEvent = Event("init", 0)
  /\ view = NoView
  /\ InitDevice
  /\ loading = FALSE /\ dashError = Null /\ dashResult = Null
  /\ selectedFile = <<>> /\ dashCalls = <<>>
  /\ mountFetch = [NoFetch EXCEPT !.pc = "done"]
  /\ serverStats = [shot \in ResultShots |-> 0]
  /\ shotStatsByType \in IF route = "/dashboard" THEN StatsMaps ELSE {EmptyMap}
  /\ playerId = DEFAULT_PLAYER_ID
  /\ histLoading = FALSE /\ histError = Null /\ loads = <<>>
  /\ histMounted = TRUE
  /\ history \in IF route = "/dashboard" THEN {<<>>}
                  ELSE {<<h>> : h \in Histories}
  /\ historyOf = IF route = "/dashboard" THEN Null ELSE DEFAULT_PLAYER_ID

NextRendering == RenderProfile \/ RenderAnalytics \/ RenderDashboard

SpecRendering == InitRendering /\ [][NextRendering]_vars

InitHistoryRoutes ==
  /\ route \in HistoryRoutes
  /\ lastEvent = Event("init", 0)
  /\ view = NoView
  /\ InitDevice
  /\ InitDashboard
  /\ InitHistoryPage
  /\ serverStats = [shot \in ResultShots |-> 0]

NextHistory ==
  \/ \E stored \in StoredNames : HistoryPageStep(HistoryMountEffects(stored))
  \/ \E name \in PlayerIds : HistoryPageStep(SetPlayerId(name))
  \/ \E i \in 1..Len(loads), data \in LoadResponses : HistoryPageStep(HistoryResolve(i, data))
  \/ \E i \in 1..Len(loads) : HistoryPageStep(HistoryReject(i))

SpecHistory == InitHistoryRoutes /\ [][NextHistory]_vars

\* an awaited step of handleConnect resolves or rejects
ConnectSettles ==
  \/ DevicePageStep(RequestDeviceResolve)
  \/ DevicePageStep(GattConnectResolve)
  \/ DevicePageStep(GattUnavailable)
  \/ DevicePageStep(DiscoveryResolve)
  \/ DevicePageStep(StartNotificationsResolve)
  \/ \E msg \in ErrorMessages : DevicePageStep(ConnectStepReject(msg))

\* the classification request of handleSendSwing resolves or rejects
ClassifySettles ==
  \/ \E i \in 1..Len(requests), shot \in ResultShots : DevicePageStep(ClassifyResolve(i, shot))
  \/ \E i \in 1..Len(requests), msg \in ErrorMessages : DevicePageStep(ClassifyReject(i, msg))

\* the call a dashboard handler is awaiting resolves or rejects
DashboardSettles ==
  \E i \in 1..Len(dashCalls) :
    \/ DashboardPageStep(CsvTextResolve(i))
    \/ \E msg \in ErrorMessages : DashboardPageStep(CsvTextReject(i, msg))
    \/ \E shot \in ResultShots : DashboardPageStep(DashClassifyResolve(i, shot))
    \/ \E msg \in ErrorMessages : DashboardPageStep(DashClassifyReject(i, msg))
    \/ DashboardPageStep(StatsServed(i))
    \/ DashboardPageStep(StatsResolve(i))
    \/ DashboardPageStep(StatsReject(i))

\* every awaited external call eventually resolves or rejects
CallsSettle ==
  /\ WF_vars(ConnectSettles)
  /\ WF_vars(ClassifySettles)
  /\ WF_vars(DashboardSettles)

SpecLive == Init /\ [][Next]_vars /\ CallsSettle

Min(a, b) == IF a < b THEN a ELSE b

C2_EpochStartsEmpty ==
  epochLog # <<>> =>
    /\ epochLog[1].t = 0
    /\ Len(samplesRef) <= Len(epochLog)
    /\ \A i \in 1..Len(samplesRef) :
         \E j \in 1..Len(epochLog) : samplesRef[i] = epochLog[j]

\* C3: a notification shorter than 24 bytes changes neither the capture
\* buffer, nor the epoch start time, nor the last displayed sample, and sets
\* no error.
C3_MalformedFrameDropped ==
  [][(lastEvent'.op = "notify" /\ lastEvent'.len < 24)
       => UNCHANGED <<samplesRef, startTimeRef, lastSample, error, now>>]_vars

\* a malformed first frame was delivered and the epoch has not started
C3_Witness ==
  /\ lastEvent = Event("notify", 23)
  /\ listeners # {}
  /\ startTimeRef = NullTime
  /\ samplesRef = <<>>
  /\ lastSample = <<>>

\* C4: handleSendSwing on an empty buffer sends no request, sets the
\* user-facing error and leaves sending false.
C4_EmptyBufferRefused ==
  [][(lastEvent'.op = "handleSendSwing" /\ Len(samplesRef) = 0)
       => /\ requests' = requests
          /\ error' = NoSamplesMsg
          /\ sending = FALSE /\ sending' = FALSE]_vars

C4_Witness ==
  /\ lastEvent = Event("handleSendSwing", 0)
  /\ connected
  /\ samplesRef = <<>>
  /\ error = NoSamplesMsg
  /\ requests = <<>>
  /\ ~sending

\* C5 as stated: every window in a classification request of the device
\* page has exactly 100 samples.
C5_WindowExactlyW ==
  \A i \in 1..Len(requests) : Len(requests[i].samples) = 100

\* C5 as amended: handleSendSwing refuses only an empty buffer; from a
\* buffer of n >= 1 samples it sends one request whose window has
\* min(100, n) samples.
C5_WindowLength ==
  [][lastEvent'.op = "handleSendSwing"
       => IF Len(samplesRef) = 0
            THEN requests' = requests
            ELSE /\ Len(requests') = Len(requests) + 1
                 /\ Len(requests'[Len(requests')].samples)
                      = Min(100, Len(samplesRef))]_vars

\* a window shorter than 100 samples is in flight
C5_Witness ==
  /\ lastEvent = Event("handleSendSwing", 99)
  /\ Len(requests) = 1
  /\ Len(requests[1].samples) = 99
  /\ sending

\* C6: the window sent from a non-empty buffer of n samples is its last
\* min(100, n) samples, index for index.
C6_WindowIsBufferTail ==
  [][(lastEvent'.op = "handleSendSwing" /\ Len(samplesRef) > 0)
       => LET n == Len(samplesRef)
              k == Min(100, n)
              window == requests'[Len(requests')].samples
          IN /\ Len(window) = k
             /\ \A i \in 1..k : window[i] = samplesRef[n - k + i]]_vars

\* a full buffer was sent: the window is buffer[300:400]
C6_Witness ==
  /\ lastEvent = Event("handleSendSwing", 400)
  /\ Len(samplesRef) = 400
  /\ Len(requests) = 1
  /\ requests[1].samples = SubSeq(samplesRef, 301, 400)

InFlightDashboard ==
  Cardinality({i \in 1..Len(dashCalls) : dashCalls[i].pc = "classify"})

\* C7: each page has at most one classification request in flight, and
\* while one is in flight its send / demo / CSV buttons are disabled.
C7_SingleRequestInFlight ==
  /\ Len(requests) <= 1
  /\ InFlightDashboard <= 1
  /\ Len(requests) = 1 => ~SendEnabled
  /\ InFlightDashboard = 1 => ~ClassifyEnabled

\* a request is outstanding while the device is connected and streaming
C7_Witness ==
  /\ Len(requests) = 1
  /\ connected
  /\ lastEvent.op = "notify"
  /\ Len(samplesRef) > Len(requests[1].samples)

\* C8: once a disconnect issued during a connection attempt has completed,
\* that attempt neither registers the notification listener nor sets
\* connected to true.
C8_DisconnectCancelsAttempt ==
  [][\A a \in 1..MaxAttempts :
       attemptLog[a].cancelled
         => /\ attemptLog'[a].registered = attemptLog[a].registered
            /\ attemptLog'[a].outcome = "connected"
                 => attemptLog[a].outcome = "connected"]_vars

\* C9: an attempt whose step failed registers no listener, no sample is
\* appended on its behalf, and the failure leaves connected false, the error
\* set, connecting false and no attempt running.
C9_FailedAttemptStartsNothing ==
  /\ [](\A a \in 1..MaxAttempts :
          attemptLog[a].outcome = "failed"
            => ~attemptLog[a].registered /\ ~attemptLog[a].appended)
  /\ [][lastEvent'.op = "stepFail"
          => /\ connected' = FALSE
             /\ error' # Null
             /\ connecting' = FALSE
             /\ connPc' = "idle"
             /\ attempt' = attempt
             /\ listeners' = listeners]_vars

\* a reconnect failed while the page showed a connected device
C9_Witness ==
  /\ lastEvent.op = "stepFail"
  /\ attempt = 2
  /\ attemptLog[1].outcome = "connected"
  /\ attemptLog[2].outcome = "failed"
  /\ ~connected /\ ~connecting
  /\ error # Null

\* C10: a failed classification request leaves shotStatsByType as it was,
\* sets the error, starts no statistics refresh and re-enables the
\* classify buttons.
C10_FailureKeepsStats ==
  [][lastEvent'.op = "dashClassifyFail"
       => /\ shotStatsByType' = shotStatsByType
          /\ serverStats' = serverStats
          /\ dashError' # Null
          /\ loading' = FALSE
          /\ ClassifyEnabled'
          /\ Len(dashCalls') = Len(dashCalls) - 1
          /\ mountFetch' = mountFetch]_vars

\* a request failed while the map already held statistics
C10_Witness ==
  /\ lastEvent.op = "dashClassifyFail"
  /\ DOMAIN shotStatsByType # {}
  /\ dashError # Null
  /\ ~loading
  /\ dashCalls = <<>>

\* the count the dashboard shows for a shot type
ShownCount(shot) ==
  IF shot \in DOMAIN shotStatsByType THEN shotStatsByType[shot].count ELSE 0

\* no handler invocation and no statistics fetch is outstanding
DashboardQuiet == dashCalls = <<>> /\ mountFetch.pc = "done"

\* the shots list of the statistics response applied by the step
AppliedShots ==
  IF lastEvent'.len = 0 THEN mountFetch.shots
  ELSE dashCalls[lastEvent'.len].shots

\* C11 as stated: when a handler has finished after a successful
\* classification and no request is outstanding, the count shown for each
\* shot type equals the number of successful classifications
\* of that shot type in the session.
C11_CountEqualsSuccesses ==
  (DashboardQuiet /\ lastEvent.op \in {"statsOk", "statsFail"}
     /\ lastEvent.len >= 1)
    => \A shot \in ResultShots : ShownCount(shot) = serverStats[shot]

\* C11 as amended: the count shown never exceeds the number of successful
\* classifications of the shot type, and it equals that number whenever the
\* statistics response just applied carries the backend's current counts.
C11_CountNeverAhead ==
  /\ [](\A shot \in ResultShots : ShownCount(shot) <= serverStats[shot])
  /\ [][(lastEvent'.op = "statsOk" /\ AppliedShots = StatsShots(serverStats))
          => \A shot \in ResultShots :
               ShownCount(shot)' = serverStats'[shot]]_vars

\* two successful classifications of one shot type are shown as count 2
C11_Witness ==
  /\ lastEvent.op = "statsOk" /\ lastEvent.len >= 1
  /\ DashboardQuiet
  /\ \E shot \in ResultShots : serverStats[shot] = 2 /\ ShownCount(shot) = 2
  /\ \A shot \in ResultShots : ShownCount(shot) = serverStats[shot]

RECURSIVE SigmaCount(_, _)
\* count_1 + ... + count_n
SigmaCount(shots, n) ==
  IF n = 0 THEN 0 ELSE SigmaCount(shots, n - 1) + shots[n].count

RECURSIVE SigmaWeighted(_, _, _)
\* avg_1 * count_1 + ... + avg_n * count_n
SigmaWeighted(shots, field, n) ==
  IF n = 0 THEN Zero
  ELSE RatAdd(SigmaWeighted(shots, field, n - 1),
              RatTimes(shots[n][field], shots[n].count))

\* value is the count-weighted mean of the field over the shots, and 0 when
\* the counts add up to 0
IsWeightedMean(value, shots, field) ==
  LET total == SigmaCount(shots, Len(shots))
  IN IF total = 0 THEN value = Zero
     ELSE RatTimes(value, total) = SigmaWeighted(shots, field, Len(shots))

ShotsOfLatest == IF HasLatest THEN latest.shots ELSE <<>>

ShotsOfPrevious == IF HasPrevious THEN previous.shots ELSE <<>>

\* C12: every overall accuracy and overall speed a page has rendered is the
\* count-weighted mean of the per-shot averages it was computed from, and
\* is 0 when the total count is 0 (empty list or all counts 0).
C12_WeightedMean ==
  /\ view.page \in {"/profile", "/analytics"} =>
       /\ IsWeightedMean(view.latestSummary.avgAccuracy, ShotsOfLatest, "average_confidence")
       /\ IsWeightedMean(view.latestSummary.avgSpeed, ShotsOfLatest, "average_speed_mps")
       /\ IsWeightedMean(view.prevSummary.avgAccuracy, ShotsOfPrevious, "average_confidence")
       /\ IsWeightedMean(view.prevSummary.avgSpeed, ShotsOfPrevious, "average_speed_mps")
       /\ IsWeightedMean(view.overallAccuracy, Flatten(sessions), "average_confidence")
  /\ view.page = "/dashboard" =>
       IsWeightedMean(view.overallAccuracy, shotStatsList, "average_confidence")

\* the profile rendered a latest session whose weighted mean differs from the
\* mean of its per-shot averages, after a session whose counts are all 0
C12_Witness ==
  /\ view.page = "/profile" /\ HasPrevious
  /\ Len(latest.shots) = 2
  /\ view.latestSummary = summarizeShots(latest.shots)
  /\ view.latestSummary.avgAccuracy
       # RatOver(PlainSum(latest.shots, "average_confidence"), 2)
  /\ Len(previous.shots) > 0 /\ TotalCount(previous.shots) = 0
  /\ view.prevSummary = NoSummary

\* the accuracy over all swings of the history is at least k hundredths
OverallAtLeast(k) ==
  LET all == Flatten(sessions)
      total == SigmaCount(all, Len(all))
  IN IF total = 0 THEN k <= 0
     ELSE RatLeq(RatTimes(Hundredths(k), total),
                 SigmaWeighted(all, "average_confidence", Len(all)))

TotalSwingsOfHistory == SigmaCount(Flatten(sessions), Len(Flatten(sessions)))

\* C13: the level the profile shows is Pro exactly when the total count is
\* at least 400 and the overall accuracy at least 0.80, otherwise Veteran
\* exactly when the total is at least 200 and the accuracy at least 0.65,
\* otherwise Amateur; (400, 0.80) is Pro, (399, 0.80) Veteran, (150, 0.90)
\* Amateur.
C13_LevelByThresholds ==
  view.page = "/profile" =>
    LET pro == TotalSwingsOfHistory >= 400 /\ OverallAtLeast(80)
        veteran == TotalSwingsOfHistory >= 200 /\ OverallAtLeast(65)
    IN /\ view.level = (IF pro THEN "Pro" ELSE IF veteran THEN "Veteran" ELSE "Amateur")
       /\ (view.overallCount = 400 /\ view.overallAccuracy = Hundredths(80))
            => view.level = "Pro"
       /\ (view.overallCount = 399 /\ view.overallAccuracy = Hundredths(80))
            => view.level = "Veteran"
       /\ (view.overallCount = 150 /\ view.overallAccuracy = Hundredths(90))
            => view.level = "Amateur"

\* a profile of exactly 400 swings at accuracy exactly 0.80, shown as Pro
C13_Witness ==
  /\ view.page = "/profile"
  /\ view.overallCount = 400 /\ view.overallAccuracy = Hundredths(80)
  /\ view.level = "Pro"

\* the profile has rendered a latest session of accuracy 0.85 after a
\* previous session of accuracy 0.80
Rendered85After80 ==
  /\ view.page = "/profile" /\ HasPrevious
  /\ view.latestSummary.avgAccuracy = Hundredths(85)
  /\ view.prevSummary.avgAccuracy = Hundredths(80)

\* the profile has rendered two sessions of equal accuracy
RenderedEqualAccuracy ==
  /\ view.page = "/profile" /\ HasPrevious
  /\ view.latestSummary.avgAccuracy = view.prevSummary.avgAccuracy

\* C14 as stated: accuracy 0.85 after 0.80 is labelled "6.3% increase in
\* accuracy", and equal accuracies are labelled "no change in accuracy".
C14_RelativeIncrease ==
  /\ Rendered85After80 =>
       view.accuracyTrend = Label("% increase in", <<Decimal(6, 3)>>, "accuracy")
  /\ RenderedEqualAccuracy =>
       view.accuracyTrend = Label("no change in", <<>>, "accuracy")

\* C14 as amended: accuracy 0.85 after 0.80 is labelled "5.0% increase in
\* accuracy" (the difference times 100), and equal accuracies are labelled
\* "no change in accuracy".
C14_DifferenceTimes100 ==
  /\ Rendered85After80 =>
       view.accuracyTrend = Label("% increase in", <<Decimal(5, 0)>>, "accuracy")
  /\ RenderedEqualAccuracy =>
       view.accuracyTrend = Label("no change in", <<>>, "accuracy")

\* the profile shows the label of 0.85 after 0.80
C14_Witness ==
  /\ Rendered85After80
  /\ view.accuracyTrend.form = "% increase in"
  /\ view.accuracyTrend.unit = "accuracy"

\* label is a well-formed trend label for the unit and for the change from
\* the value before to the value now
TrendLabelOk(label, unit, before, now_) ==
  /\ label.form \in {"no previous data", "no change in", "% increase in", "% decrease in"}
  /\ label.form = "no previous data" <=> Len(sessions) < 2
  /\ label.form = "no previous data" => label.value = <<>> /\ label.unit = ""
  /\ label.form = "no change in" => label.value = <<>> /\ label.unit = unit
  /\ label.form \in {"% increase in", "% decrease in"} =>
       /\ label.unit = unit
       /\ Len(label.value) = 1
       /\ ~label.value[1].neg
       /\ label.value[1].int >= 0 /\ label.value[1].tenth \in 0..9
  /\ label.form = "% increase in" => RatLess(before, now_)
  /\ label.form = "% decrease in" => RatLess(now_, before)

C16_NoSwingsGetStarted ==
  (/\ view.page \in {"/profile", "/analytics"}
   /\ SigmaCount(ShotsOfLatest, Len(ShotsOfLatest)) = 0)
    => view.feedback = Feedback("No swings recorded yet", "", <<>>)

\* the latest session exists and its counts add up to more than 0
LatestHasSwings == SigmaCount(ShotsOfLatest, Len(ShotsOfLatest)) > 0

\* the change of accuracy between the two summaries the page has rendered
RenderedDelta ==
  RatSub(view.latestSummary.avgAccuracy, view.prevSummary.avgAccuracy)

\* the shot type of the first shot of the latest session that has the
\* largest count
DominantShot ==
  LET shots == latest.shots
      first == CHOOSE i \in 1..Len(shots) :
                 /\ \A j \in 1..Len(shots) : shots[j].count <= shots[i].count
                 /\ \A j \in 1..(i - 1) : shots[j].count < shots[i].count
  IN shots[first].shot_type

\* C17: for a latest session with swings exactly one feedback branch is
\* taken: without a previous session by the accuracy (>= 90%, else >= 75%,
\* else the beginner message); with a previous session by the change of
\* accuracy alone (> 0.02 improvement, < -0.02 regression, otherwise stable,
\* which includes exactly +0.02 and -0.02).
C17_FeedbackBranch ==
  (view.page \in {"/profile", "/analytics"} /\ LatestHasSwings) =>
    LET acc == view.latestSummary.avgAccuracy
        msg == view.feedback.msg
    IN /\ ~HasPrevious =>
            /\ msg = "Amazing start" <=> RatLeq(Hundredths(90), acc)
            /\ msg = "Great foundation" <=>
                 (RatLeq(Hundredths(75), acc) /\ RatLess(acc, Hundredths(90)))
            /\ msg = "You are at the beginning" <=> RatLess(acc, Hundredths(75))
            /\ acc = Hundredths(92) =>
                 view.feedback = Feedback("Amazing start", DominantShot, <<Decimal(92, 0)>>)
       /\ HasPrevious =>
            /\ msg = "Nice improvement" <=> RatLess(Hundredths(2), RenderedDelta)
            /\ msg = "Today was a slightly tougher session" <=>
                 RatLess(RenderedDelta, RatNeg(Hundredths(2)))
            /\ msg = "Your accuracy is stable" <=>
                 (RatLeq(RatNeg(Hundredths(2)), RenderedDelta)
                    /\ RatLeq(RenderedDelta, Hundredths(2)))
            /\ RenderedDelta \in {Hundredths(2), RatNeg(Hundredths(2))} =>
                 msg = "Your accuracy is stable"
            /\ RenderedDelta = RatNeg(Hundredths(5)) =>
                 view.feedback = Feedback("Today was a slightly tougher session",
                                          DominantShot, <<Decimal(5, 0)>>)

\* the profile shows the stable message for a change of exactly +0.02
C17_Witness ==
  /\ view.page = "/profile" /\ HasPrevious /\ LatestHasSwings
  /\ RenderedDelta = Hundredths(2)
  /\ view.feedback.msg = "Your accuracy is stable"

\* C18: while a classification request is outstanding, a notification never
\* changes the samples of its window, and sending a window leaves the
\* capture buffer unchanged.
C18_WindowIsSnapshot ==
  /\ [][lastEvent'.op \in {"notify", "notifyNoValue"} =>
          /\ Len(requests') = Len(requests)
          /\ \A i \in 1..Len(requests) :
               requests'[i].samples = requests[i].samples]_vars
  /\ [][lastEvent'.op = "handleSendSwing" =>
          /\ samplesRef' = samplesRef
          /\ \A i \in 1..Len(requests) :
               requests'[i].samples = requests[i].samples]_vars

\* a request is outstanding, a frame has just been appended, and the oldest
\* sample of the request's window has since been evicted from the buffer
C18_Witness ==
  /\ lastEvent.op = "notify" /\ Len(requests) = 1
  /\ Len(acceptedLog) > MAX_SAMPLES
  /\ Len(requests[1].samples) = WINDOW
  /\ requests[1].samples[1].t < samplesRef[1].t

\* C19: no step of handleDisconnect, and no step taken while it awaits the
\* GATT disconnect, changes the capture buffer or the epoch start time; and
\* whether the GATT call returns or throws the handler ends with
\* connected = false and no device handle.
C19_DisconnectKeepsSamples ==
  /\ [][(lastEvent'.op \in {"disconnect", "disconnectCall"}
           \/ discPc = "awaitDisconnect")
          => (samplesRef' = samplesRef /\ startTimeRef' = startTimeRef)]_vars
  /\ [][lastEvent'.op = "disconnect"
          => (connected' = FALSE /\ deviceRef' = Null)]_vars

\* a disconnect whose GATT call threw has ended with the captured samples
\* still in the buffer
C19_Witness ==
  /\ lastEvent = Event("disconnect", 1)
  /\ Len(samplesRef) >= 2 /\ startTimeRef # NullTime
  /\ connected = FALSE /\ deviceRef = Null

\* C20: on the profile and the analytics page, once no history load is
\* outstanding, a history that is shown is the one that was requested for
\* the current player id.
C20_HistoryOfCurrentPlayer ==
  (route \in HistoryRoutes /\ histMounted /\ loads = <<>> /\ history # <<>>)
    => historyOf = playerId

\* C21: when every awaited call eventually resolves or rejects, a connecting,
\* sending or loading flag that is set is eventually cleared again.
C21_BusyFlagsCleared ==
  /\ connecting ~> ~connecting
  /\ sending ~> ~sending
  /\ loading ~> ~loading

\* handleConnect has cleared its flag on a failure that came after the GATT
\* link was up
C21_Witness ==
  /\ lastEvent = Event("stepFail", 0)
  /\ ~connecting /\ connPc = "idle"
  /\ gattConnected

\* the fields both pages derive from the history
SharedFields ==
  {"latestSummary", "prevSummary", "overallCount", "overallAccuracy",
   "feedback", "accuracyTrend", "speedTrend"}

\* C22: for every player history the profile page and the analytics page
\* compute the same latest and previous summaries, the same accuracy and
\* speed deltas, the same trend labels, the same dominant shot and the same
\* feedback, and what either page has rendered is what the other computes.
C22_PagesAgree ==
  view.page \in HistoryRoutes =>
    /\ LET profile == ProfileView
           analytics == AnalyticsView
       IN \A f \in SharedFields :
            profile[f] = analytics[f] /\ view[f] = profile[f]
    /\ accuracyDelta = AnalyticsAccuracyDelta
    /\ speedDelta = AnalyticsSpeedDelta
    /\ Len(ShotsOfLatest) > 0 =>
         PrimaryShot(latest.shots) = AnalyticsPrimaryShot(latest.shots)

\* the analytics page has rendered feedback naming the dominant shot of a
\* latest session whose two shots tie on the count, with a previous session
C22_Witness ==
  /\ view.page = "/analytics" /\ HasPrevious
  /\ Len(latest.shots) = 2
  /\ latest.shots[1].count = latest.shots[2].count /\ latest.shots[1].count > 0
  /\ view.feedback.shot = latest.shots[1].shot_type
  /\ view.accuracyTrend.form = "% decrease in"
  /\ view.feedback = ProfileView.feedback

====
